---- MODULE Spec2Model ----
(***************************************************************************)
(* A model of src/edgar_query.py: the keyword matcher has_keywords, the    *)
(* classifier classify_ and the scan find_special_situations, which lists  *)
(* the filings of each requested form, probes each filing's primary text   *)
(* and attachments, and collects, sorts and returns the hit rows.          *)
(*                                                                         *)
(* Python strings are TLA+ strings; a character is a string of length 1.   *)
(* An absent text (None) and the empty text are both "", as `not text`     *)
(* treats them alike.                                                      *)
(***************************************************************************)
EXTENDS Integers, Sequences, FiniteSets, TLC

\* ------------------------------------------------------------ characters

CharAt(s, i) == SubSeq(s, i, i)

Digits == "0123456789"

UpperCase == "ABCDEFGHIJKLMNOPQRSTUVWXYZ"

LowerCase == "abcdefghijklmnopqrstuvwxyz"

Punct == " &(),-./:;"

\* the code points of the characters of Punct, in the same order
PunctOrd == <<32, 38, 40, 41, 44, 45, 46, 47, 58, 59>>

CharsOf(s) == {CharAt(s, i) : i \in 1..Len(s)}

Chars == CharsOf(Digits) \cup CharsOf(UpperCase) \cup CharsOf(LowerCase) \cup CharsOf(Punct)

Pos(s, c) == CHOOSE i \in 1..Len(s) : CharAt(s, i) = c

\* the code point of a character: the order Python compares strings by
ord == [c \in Chars |->
          IF c \in CharsOf(Digits) THEN 47 + Pos(Digits, c)
          ELSE IF c \in CharsOf(UpperCase) THEN 64 + Pos(UpperCase, c)
          ELSE IF c \in CharsOf(LowerCase) THEN 96 + Pos(LowerCase, c)
          ELSE PunctOrd[Pos(Punct, c)]]

lowerChar == [c \in Chars |->
                IF c \in CharsOf(UpperCase) THEN CharAt(LowerCase, Pos(UpperCase, c)) ELSE c]

upperChar == [c \in Chars |->
                IF c \in CharsOf(LowerCase) THEN CharAt(UpperCase, Pos(LowerCase, c)) ELSE c]

RECURSIVE lower(_)
\* str.lower()
lower(s) == IF s = "" THEN "" ELSE lowerChar[CharAt(s, 1)] \o lower(Tail(s))

RECURSIVE upper(_)
\* str.upper()
upper(s) == IF s = "" THEN "" ELSE upperChar[CharAt(s, 1)] \o upper(Tail(s))

\* str.startswith(p)
startswith(s, p) == Len(p) <= Len(s) /\ SubSeq(s, 1, Len(p)) = p

\* str.endswith(p)
endswith(s, p) == Len(p) <= Len(s) /\ SubSeq(s, Len(s) - Len(p) + 1, Len(s)) = p

\* `sub in s`: plain substring containment
Contains(s, sub) ==
    \E i \in 1..(Len(s) - Len(sub) + 1) : SubSeq(s, i, i + Len(sub) - 1) = sub

RECURSIVE StrLess(_, _)
\* a < b for Python strings: lexicographic by code point
StrLess(a, b) ==
    IF b = "" THEN FALSE
    ELSE IF a = "" THEN TRUE
    ELSE IF CharAt(a, 1) = CharAt(b, 1) THEN StrLess(Tail(a), Tail(b))
    ELSE ord[CharAt(a, 1)] < ord[CharAt(b, 1)]

\* ------------------------------------------------------------ keywords

KEYWORDS == <<
    "merger", "acquisition", "acquires", "acquired", "to be acquired", "combination",
    "tender offer", "going private", "go-private", "take private",
    "spin-off", "spinoff", "split-off", "carve-out",
    "restructuring", "recapitalization", "rights offering",
    "asset sale", "divestiture", "sell division", "disposition",
    "chapter 11", "bankruptcy", "emerges from chapter",
    "activist", "13d", "13d/a", "strategic review",
    "special dividend", "buyback", "share repurchase", "scheme of arrangement",
    "13e-3", "sc to-t", "sc to-i" >>

\* \w of the regular expressions: a letter, a digit or the underscore
WordChars == CharsOf(Digits) \cup CharsOf(UpperCase) \cup CharsOf(LowerCase)

IsWordChar(c) == c \in WordChars

\* is the character at position i of text a word character (none outside the text)
WordAt(text, i) == i >= 1 /\ i <= Len(text) /\ IsWordChar(CharAt(text, i))

\* \b between positions i-1 and i of text
Boundary(text, i) == WordAt(text, i - 1) # WordAt(text, i)

\* re.compile(r"\b" + keyword + r"\b", re.IGNORECASE).search(text) is not None
PatSearch(keyword, text) ==
    \E i \in 1..(Len(text) - Len(keyword) + 1) :
        /\ lower(SubSeq(text, i, i + Len(keyword) - 1)) = keyword
        /\ Boundary(text, i)
        /\ Boundary(text, i + Len(keyword))

has_keywords(text) ==
    IF text = "" THEN FALSE
    ELSE \E k \in 1..Len(KEYWORDS) : PatSearch(KEYWORDS[k], text)

\* ------------------------------------------------------------ classifier

\* classify_ with the M&A test moved above the tender and spin-off tests
classify_ma_first(text) ==
    IF text = "" THEN "Other"
    ELSE LET t == lower(text) IN
      IF Contains(t, "13e-3") THEN "Going-Private (13E-3)"
      ELSE IF Contains(t, "sc to-t") THEN "Tender Offer (TO-T)"
      ELSE IF Contains(t, "sc to-i") THEN "Issuer Tender (TO-I)"
      ELSE IF Contains(t, "merger") \/ Contains(t, "acquisition") \/ Contains(t, "acquires")
              \/ Contains(t, "to be acquired") \/ Contains(t, "combination")
           THEN "M&A"
      ELSE IF Contains(t, "tender offer") \/ Contains(t, "going private")
              \/ Contains(t, "go-private") \/ Contains(t, "take private")
           THEN "Tender/Going-Private"
      ELSE IF Contains(t, "spin-off") \/ Contains(t, "spinoff")
              \/ Contains(t, "split-off") \/ Contains(t, "carve-out")
           THEN "Spin-off"
      ELSE IF Contains(t, "restructuring") \/ Contains(t, "recapitalization")
              \/ Contains(t, "rights offering")
           THEN "Restructuring/Recap"
      ELSE IF Contains(t, "asset sale") \/ Contains(t, "divestiture")
              \/ Contains(t, "sell division") \/ Contains(t, "disposition")
           THEN "Asset Sale"
      ELSE IF Contains(t, "chapter 11") \/ Contains(t, "bankruptcy")
              \/ Contains(t, "emerges from chapter")
           THEN "Bankruptcy"
      ELSE IF Contains(t, "13d") THEN "Activist/13D"
      ELSE IF Contains(t, "strategic review") THEN "Strategic Review"
      ELSE IF Contains(t, "special dividend") THEN "Special Dividend"
      ELSE IF Contains(t, "buyback") \/ Contains(t, "share repurchase") THEN "Buyback"
      ELSE "Other"

classify_(text) ==
    IF text = "" THEN "Other"
    ELSE LET t == lower(text) IN
      IF Contains(t, "13e-3") THEN "Going-Private (13E-3)"
      ELSE IF Contains(t, "sc to-t") THEN "Tender Offer (TO-T)"
      ELSE IF Contains(t, "sc to-i") THEN "Issuer Tender (TO-I)"
      ELSE IF Contains(t, "tender offer") \/ Contains(t, "going private")
              \/ Contains(t, "go-private") \/ Contains(t, "take private")
           THEN "Tender/Going-Private"
      ELSE IF Contains(t, "spin-off") \/ Contains(t, "spinoff")
              \/ Contains(t, "split-off") \/ Contains(t, "carve-out")
           THEN "Spin-off"
      ELSE IF Contains(t, "merger") \/ Contains(t, "acquisition") \/ Contains(t, "acquires")
              \/ Contains(t, "to be acquired") \/ Contains(t, "combination")
           THEN "M&A"
      ELSE IF Contains(t, "restructuring") \/ Contains(t, "recapitalization")
              \/ Contains(t, "rights offering")
           THEN "Restructuring/Recap"
      ELSE IF Contains(t, "asset sale") \/ Contains(t, "divestiture")
              \/ Contains(t, "sell division") \/ Contains(t, "disposition")
           THEN "Asset Sale"
      ELSE IF Contains(t, "chapter 11") \/ Contains(t, "bankruptcy")
              \/ Contains(t, "emerges from chapter")
           THEN "Bankruptcy"
      ELSE IF Contains(t, "13d") THEN "Activist/13D"
      ELSE IF Contains(t, "strategic review") THEN "Strategic Review"
      ELSE IF Contains(t, "special dividend") THEN "Special Dividend"
      ELSE IF Contains(t, "buyback") \/ Contains(t, "share repurchase") THEN "Buyback"
      ELSE "Other"

\* ------------------------------------------------------------ the provider's data

\* The filings the provider (edgar.get_filings) may hand out.  A filing exposes
\* company, cik, filing_date (a date), accession_no, url, the primary text
\* returned by text(), and its attachments (document, type, content() text).
Catalog == <<
    [company |-> "Acme Corp", cik |-> 1001, filing_date |-> <<2025, 10, 1>>,
     accession_no |-> "0001-25-000001", url |-> "https://sec.example/1",
     text |-> "The Merger closed",
     attachments |-> <<
        [document |-> "ex99.htm", type |-> "EX-99.1", content |-> "Tender Offer launched"],
        [document |-> "img.jpg", type |-> "GRAPHIC", content |-> "merger"] >>],
    [company |-> "Acme Corp", cik |-> 1001, filing_date |-> <<2025, 8, 8>>,
     accession_no |-> "0001-25-000002", url |-> "https://sec.example/2",
     text |-> "Quarterly update",
     attachments |-> <<
        [document |-> "R1.HTM", type |-> "XML", content |-> "Spin-Off plan"],
        [document |-> "R1.HTM", type |-> "", content |-> "a merger"],
        [document |-> "", type |-> "ex-99", content |-> "buyback"] >>],
    [company |-> "Beta Inc", cik |-> 2002, filing_date |-> <<2025, 8, 1>>,
     accession_no |-> "0002-25-000003", url |-> "https://sec.example/3",
     text |-> "13E-3 merger",
     attachments |-> <<
        [document |-> "note.TXT", type |-> "", content |-> "Schedule 13D"] >>],
    [company |-> "Beta Inc", cik |-> 2002, filing_date |-> <<2025, 8, 8>>,
     accession_no |-> "0002-25-000004", url |-> "https://sec.example/4",
     text |-> "submergers emergent",
     attachments |-> <<
        [document |-> "data.xml", type |-> "", content |-> "merger"] >>] >>

FilingIds == 1..Len(Catalog)

\* ------------------------------------------------------------ bounds

\* max_filings is None or in 0..MaxN
MaxN == 1

\* at most this many accessor or provider calls raise in one scan
MaxFaults == 2

\* ------------------------------------------------------------ helpers of the scan

Digit(n) == CharAt(Digits, n + 1)

RECURSIVE Pad(_, _)
\* the decimal digits of n, zero-padded to width w
Pad(n, w) == IF w = 0 THEN "" ELSE Pad(n \div 10, w - 1) \o Digit(n % 10)

\* str(f.filing_date) of a datetime.date: ISO format YYYY-MM-DD
StrDate(d) == Pad(d[1], 4) \o "-" \o Pad(d[2], 2) \o "-" \o Pad(d[3], 2)

\* islice that does not cut: the whole list
islice_all(s, n) == s

\* islice(gen, n) then list(): the first n items, in order
islice(s, n) == SubSeq(s, 1, IF n < Len(s) THEN n ELSE Len(s))

Range(s) == {s[i] : i \in 1..Len(s)}

\* the lists get_filings(form, filing_date) may return: no filing, a filing that
\* matches nowhere, two filings of one company, two filings of another, and
\* three filings of two companies, two of them also in an earlier list
Listings == {<< >>, <<4>>, <<1, 2>>, <<3, 4>>, <<3, 2, 1>>}

\* line 123 letting every attachment through
Eligible_any(att) == TRUE

\* line 123: the attachment is worth fetching
Eligible(att) ==
    LET doc == att.document
        typ == att.type
    IN \/ endswith(lower(doc), ".htm") \/ endswith(lower(doc), ".html")
       \/ endswith(lower(doc), ".txt")
       \/ startswith(upper(typ), "EX") \/ startswith(upper(typ), "EX-")

\* f"attachment:{doc or typ}"
AttachmentTag(att) ==
    "attachment:" \o (IF att.document # "" THEN att.document ELSE att.type)

RECURSIVE sorted(_)
\* sorted(set): ascending by StrLess
sorted(S) ==
    IF S = {} THEN << >>
    ELSE LET m == CHOOSE a \in S : \A b \in S : ~StrLess(b, a)
         IN <<m>> \o sorted(S \ {m})

RECURSIVE join(_, _)
\* sep.join(seq)
join(sep, s) ==
    IF s = << >> THEN ""
    ELSE IF Len(s) = 1 THEN s[1]
    ELSE s[1] \o sep \o join(sep, Tail(s))

\* the tags joined as collected: not deduplicated, not sorted
WhereFound_as_collected(w) == join("; ", w)

\* "; ".join(sorted(set(where)))
WhereFound(w) == join("; ", sorted(Range(w)))

\* the dict of lines 133-142
HitRow(f, form, cls, w) ==
    [company |-> f.company, cik |-> f.cik, filing_date |-> StrDate(f.filing_date),
     accession_no |-> f.accession_no, form_type |-> form, classification |-> cls,
     where_found |-> WhereFound(w), link |-> f.url]

\* the keys of that dict, in insertion order: the columns of pd.DataFrame(rows)
RowKeys == <<"company", "cik", "filing_date", "accession_no",
             "form_type", "classification", "where_found", "link">>

\* pd.DataFrame() with no columns
EmptyFrame_bare == [columns |-> << >>, index |-> << >>, data |-> << >>]

\* pd.DataFrame(columns=[...]) of lines 149-152
EmptyFrame ==
    [columns |-> <<"company", "cik", "filing_date", "accession_no",
                   "form_type", "classification", "where_found", "link">>,
     index |-> << >>, data |-> << >>]

\* pd.DataFrame(rows): a default index 0..n-1
DataFrame(rs) ==
    [columns |-> RowKeys, index |-> [i \in 1..Len(rs) |-> i - 1], data |-> rs]

\* the sort key ["company", "filing_date"], compared as a tuple of strings
KeyLess(a, b) ==
    \/ StrLess(a.company, b.company)
    \/ a.company = b.company /\ StrLess(a.filing_date, b.filing_date)

RECURSIVE InsertKey(_, _, _)
\* put position p into the sorted list of positions, after every position whose
\* row is not greater (the sort is stable)
InsertKey(ps, p, rs) ==
    IF ps = << >> THEN <<p>>
    ELSE IF KeyLess(rs[p], rs[Head(ps)]) THEN <<p>> \o ps
    ELSE <<Head(ps)>> \o InsertKey(Tail(ps), p, rs)

RECURSIVE SortedPositions(_, _)
\* the positions 1..n of rs in ascending key order
SortedPositions(n, rs) ==
    IF n = 0 THEN << >> ELSE InsertKey(SortedPositions(n - 1, rs), n, rs)

\* the frame left in the order the rows were collected
sort_values_none(frame) == frame

\* df.sort_values(["company", "filing_date"]): rows and index labels move together
sort_values(frame) ==
    LET ps == SortedPositions(Len(frame.data), frame.data) IN
    [columns |-> frame.columns,
     index |-> [i \in 1..Len(ps) |-> frame.index[ps[i]]],
     data |-> [i \in 1..Len(ps) |-> frame.data[ps[i]]]]

\* df.reset_index(drop=True)
reset_index(frame) ==
    [frame EXCEPT !.index = [i \in 1..Len(frame.data) |-> i - 1]]

\* lines 147-154
BuildFrame(rs) ==
    IF rs = << >> THEN EmptyFrame ELSE reset_index(sort_values(DataFrame(rs)))

\* ------------------------------------------------------------ the scan

VARIABLES
    forms,             \* argument: the list of forms
    include_exhibits,  \* argument
    max_filings,       \* argument: [set |-> FALSE] is None, else [set |-> TRUE, n |-> N]
    pc,                \* "get_filings", "primary", "attachments", "row", "done", "raised"
    formIdx,           \* the position in forms of the form being processed
    filings,           \* list(gen) of the current form
    idx,               \* enumerate(filings, 1)
    attIdx,            \* the position in f.attachments the loop is at
    where,             \* the tags of the current filing
    rows,              \* the hit rows collected so far
    df,                \* the returned table, once pc = "done"
    error,             \* what raised out of the function, once pc = "raised"
    faults,            \* how many calls raised so far
    requested,         \* history: how many times the provider was asked for a list
    listFailed,        \* history: a provider call raised
    avail,             \* history: what the provider returned for the current form
    scanned,           \* history: the filings of the current form whose text was asked for
    calls,             \* history: the accessor calls made on the current filing
    rowSrc,            \* history: for each row, the filing it was built from and the calls
    snippet,           \* the argument of a call of classify_ on its own
    label              \* what that call returned

vars == <<forms, include_exhibits, max_filings, pc, formIdx, filings, idx, attIdx,
          where, rows, df, error, faults, requested, listFailed, avail, scanned,
          calls, rowSrc, snippet, label>>

\* what the scan never writes
args == <<forms, include_exhibits, max_filings, snippet, label>>

NoFrame == [columns |-> << >>, index |-> << >>, data |-> << >>]

\* the forms arguments tried: no form, one form, two forms
FormLists == {<< >>, <<"8-K">>, <<"SC 13D">>, <<"8-K", "SC 13D">>}

MaxFilingsArgs ==
    {[set |-> FALSE, n |-> 0]} \cup {[set |-> TRUE, n |-> k] : k \in 0..MaxN}

Init ==
    /\ forms \in FormLists
    /\ include_exhibits \in BOOLEAN
    /\ max_filings \in MaxFilingsArgs
    /\ pc = "get_filings"
    /\ formIdx = 1
    /\ filings = << >>
    /\ idx = 1
    /\ attIdx = 1
    /\ where = << >>
    /\ rows = << >>
    /\ df = NoFrame
    /\ error = ""
    /\ faults = 0
    /\ requested = 0
    /\ listFailed = FALSE
    /\ avail = << >>
    /\ scanned = << >>
    /\ calls = << >>
    /\ rowSrc = << >>
    /\ snippet = ""
    /\ label = ""

\* the filing f of the loop of line 109
CurId == filings[idx]

Cur == Catalog[CurId]

\* What the accessors of the catalog's filings give, worked out once: whether
\* f.text() and each att.content() pass has_keywords, which attachments line 123
\* lets through, their tags, and classify_(f.text()).
PrimaryHit == [i \in FilingIds |-> has_keywords(Catalog[i].text)]

ContentHit ==
    [i \in FilingIds |->
        [j \in 1..Len(Catalog[i].attachments) |-> has_keywords(Catalog[i].attachments[j].content)]]

EligibleAtt ==
    [i \in FilingIds |->
        [j \in 1..Len(Catalog[i].attachments) |-> Eligible(Catalog[i].attachments[j])]]

TagOf ==
    [i \in FilingIds |->
        [j \in 1..Len(Catalog[i].attachments) |-> AttachmentTag(Catalog[i].attachments[j])]]

Classification == [i \in FilingIds |-> classify_(Catalog[i].text)]

\* one accessor call: text() (att 0), content() of attachment att, the read of
\* f.attachments ("attachments"), or an attachment passed over ("skip")
Call(kind, att, outcome) == [kind |-> kind, att |-> att, outcome |-> outcome]

\* lines 101-107, the provider answers
GetFilings ==
    /\ pc = "get_filings"
    /\ formIdx <= Len(forms)
    /\ \E lst \in Listings :
         LET got == IF max_filings.set THEN islice(lst, max_filings.n) ELSE lst IN
         /\ avail' = lst
         /\ filings' = got
         /\ IF got = << >>
            THEN pc' = "get_filings" /\ formIdx' = formIdx + 1
            ELSE pc' = "primary" /\ formIdx' = formIdx
    /\ idx' = 1
    /\ requested' = requested + 1
    /\ scanned' = << >>
    /\ calls' = << >>
    /\ UNCHANGED <<args, attIdx, where, rows, df, error, faults, listFailed, rowSrc>>

\* a provider failure swallowed: the form is taken to have no filings
GetFilingsRaises_swallowed ==
    /\ pc = "get_filings"
    /\ formIdx <= Len(forms)
    /\ faults < MaxFaults
    /\ faults' = faults + 1
    /\ requested' = requested + 1
    /\ listFailed' = TRUE
    /\ pc' = "get_filings"
    /\ formIdx' = formIdx + 1
    /\ UNCHANGED <<args, filings, idx, attIdx, where, rows, df, error, avail,
                   scanned, calls, rowSrc>>

\* line 101 or 106 raises: nothing catches it
GetFilingsRaises ==
    /\ pc = "get_filings"
    /\ formIdx <= Len(forms)
    /\ faults < MaxFaults
    /\ faults' = faults + 1
    /\ requested' = requested + 1
    /\ listFailed' = TRUE
    /\ pc' = "raised"
    /\ error' = "get_filings"
    /\ UNCHANGED <<args, formIdx, filings, idx, attIdx, where, rows, df, avail,
                   scanned, calls, rowSrc>>

\* lines 110-116
ScanPrimary ==
    /\ pc = "primary"
    /\ \/ /\ where' = IF PrimaryHit[CurId] THEN <<"primary">> ELSE << >>
          /\ calls' = <<Call("text", 0, "ok")>>
          /\ UNCHANGED faults
       \/ /\ faults < MaxFaults
          /\ faults' = faults + 1
          /\ where' = << >>
          /\ calls' = <<Call("text", 0, "raise")>>
    /\ scanned' = Append(scanned, CurId)
    /\ attIdx' = 1
    /\ pc' = IF include_exhibits THEN "attachments" ELSE "row"
    /\ UNCHANGED <<args, formIdx, filings, idx, rows, df, error, requested, listFailed,
                   avail, rowSrc>>

\* the loop without the inner try: a content() that raises ends the loop
ScanAttachment_no_inner_try ==
    /\ pc = "attachments"
    /\ attIdx <= Len(Cur.attachments)
    /\ IF EligibleAtt[CurId][attIdx]
       THEN \/ /\ where' = IF ContentHit[CurId][attIdx]
                           THEN Append(where, TagOf[CurId][attIdx]) ELSE where
               /\ calls' = Append(calls, Call("content", attIdx, "ok"))
               /\ pc' = pc
               /\ UNCHANGED faults
            \/ /\ faults < MaxFaults
               /\ faults' = faults + 1
               /\ calls' = Append(calls, Call("content", attIdx, "raise"))
               /\ pc' = "row"
               /\ UNCHANGED where
       ELSE /\ calls' = Append(calls, Call("skip", attIdx, "ok"))
            /\ pc' = pc
            /\ UNCHANGED <<where, faults>>
    /\ attIdx' = attIdx + 1
    /\ UNCHANGED <<args, formIdx, filings, idx, rows, df, error, requested,
                   listFailed, avail, scanned, rowSrc>>

\* lines 120-128, one attachment of the loop
ScanAttachment ==
    /\ pc = "attachments"
    /\ attIdx <= Len(Cur.attachments)
    /\ IF EligibleAtt[CurId][attIdx]
       THEN \/ /\ where' = IF ContentHit[CurId][attIdx]
                           THEN Append(where, TagOf[CurId][attIdx]) ELSE where
               /\ calls' = Append(calls, Call("content", attIdx, "ok"))
               /\ UNCHANGED faults
            \/ /\ faults < MaxFaults
               /\ faults' = faults + 1
               /\ calls' = Append(calls, Call("content", attIdx, "raise"))
               /\ UNCHANGED where
       ELSE /\ calls' = Append(calls, Call("skip", attIdx, "ok"))
            /\ UNCHANGED <<where, faults>>
    /\ attIdx' = attIdx + 1
    /\ UNCHANGED <<args, pc, formIdx, filings, idx, rows, df, error, requested,
                   listFailed, avail, scanned, rowSrc>>

\* line 120, the loop ends
AttachmentsEnd ==
    /\ pc = "attachments"
    /\ attIdx > Len(Cur.attachments)
    /\ pc' = "row"
    /\ UNCHANGED <<args, formIdx, filings, idx, attIdx, where, rows, df, error, faults,
                   requested, listFailed, avail, scanned, calls, rowSrc>>

\* lines 129-130: reading f.attachments, or stepping through it, raises
AttachmentsRaise ==
    /\ pc = "attachments"
    /\ faults < MaxFaults
    /\ faults' = faults + 1
    /\ calls' = Append(calls, Call("attachments", attIdx, "raise"))
    /\ pc' = "row"
    /\ UNCHANGED <<args, formIdx, filings, idx, attIdx, where, rows, df, error,
                   requested, listFailed, avail, scanned, rowSrc>>

\* the loops of lines 109 and 100 step on
NextFiling ==
    IF idx < Len(filings)
    THEN idx' = idx + 1 /\ pc' = "primary" /\ formIdx' = formIdx
    ELSE idx' = idx /\ pc' = "get_filings" /\ formIdx' = formIdx + 1

\* lines 132-142
BuildRow ==
    /\ pc = "row"
    /\ IF where = << >>
       THEN /\ NextFiling
            /\ UNCHANGED <<rows, rowSrc, calls, faults, error>>
       ELSE \/ /\ rows' = Append(rows, HitRow(Cur, forms[formIdx], Classification[CurId], where))
               /\ rowSrc' = Append(rowSrc, [form |-> formIdx, pos |-> idx,
                                            filing |-> CurId, calls |-> calls])
               /\ calls' = Append(calls, Call("text", 0, "ok"))
               /\ NextFiling
               /\ UNCHANGED <<faults, error>>
            \/ /\ faults < MaxFaults
               /\ faults' = faults + 1
               /\ calls' = Append(calls, Call("text", 0, "raise"))
               /\ pc' = "raised"
               /\ error' = "text"
               /\ UNCHANGED <<rows, rowSrc, idx, formIdx>>
    /\ UNCHANGED <<args, filings, attIdx, where, df, requested, listFailed, avail, scanned>>

\* lines 147-157
Finish ==
    /\ pc = "get_filings"
    /\ formIdx > Len(forms)
    /\ df' = BuildFrame(rows)
    /\ pc' = "done"
    /\ UNCHANGED <<args, formIdx, filings, idx, attIdx, where, rows, error, faults,
                   requested, listFailed, avail, scanned, calls, rowSrc>>

Next ==
    \/ GetFilings
    \/ GetFilingsRaises
    \/ ScanPrimary
    \/ ScanAttachment
    \/ AttachmentsEnd
    \/ AttachmentsRaise
    \/ BuildRow
    \/ Finish

Spec == Init /\ [][Next]_vars

\* ------------------------------------------------------------ classify_ on its own

\* at most this many phrases in a text handed to classify_
MaxPhrases == 2

\* every trigger of lines 44-70, some capitalised as in a filing, two phrases
\* that trigger nothing, and a sentence with two triggers
Phrases == {
    "13E-3", "SC TO-T", "sc to-i",
    "Tender Offer", "going private", "Go-Private", "take private",
    "spin-off", "Spinoff", "split-off", "carve-out",
    "Merger", "acquisition", "acquires", "to be acquired", "combination",
    "Restructuring", "recapitalization", "rights offering",
    "asset sale", "Divestiture", "sell division", "disposition",
    "Chapter 11", "bankruptcy", "emerges from chapter",
    "13D", "Strategic Review", "special dividend", "buyback", "Share Repurchase",
    "acquired", "quarterly update", "Company to be acquired via tender offer" }

RECURSIVE TextsOf(_)
\* the texts of at most n phrases, separated by a space
TextsOf(n) ==
    IF n = 0 THEN {""}
    ELSE LET shorter == TextsOf(n - 1) IN
         shorter \cup {IF t = "" THEN p ELSE t \o " " \o p : t \in shorter, p \in Phrases}

InitClassify ==
    /\ snippet \in TextsOf(MaxPhrases)
    /\ label = ""
    /\ pc = "classify"
    /\ forms = << >>
    /\ include_exhibits = FALSE
    /\ max_filings = [set |-> FALSE, n |-> 0]
    /\ formIdx = 1
    /\ filings = << >>
    /\ idx = 1
    /\ attIdx = 1
    /\ where = << >>
    /\ rows = << >>
    /\ df = NoFrame
    /\ error = ""
    /\ faults = 0
    /\ requested = 0
    /\ listFailed = FALSE
    /\ avail = << >>
    /\ scanned = << >>
    /\ calls = << >>
    /\ rowSrc = << >>

\* lines 34-72, one call
Classify ==
    /\ pc = "classify"
    /\ label' = classify_(snippet)
    /\ pc' = "classified"
    /\ UNCHANGED <<forms, include_exhibits, max_filings, snippet, formIdx, filings, idx,
                   attIdx, where, rows, df, error, faults, requested, listFailed, avail,
                   scanned, calls, rowSrc>>

SpecClassify == InitClassify /\ [][Classify]_vars

\* ------------------------------------------------------------ properties

Min(a, b) == IF a < b THEN a ELSE b

\* how many filings of a provider list max_filings lets through
Limit(lst) == IF max_filings.set THEN Min(max_filings.n, Len(lst)) ELSE Len(lst)

RECURSIVE SepFrom(_, _)
\* the position of the first "; " of s at or after position i, 0 if there is none
SepFrom(s, i) ==
    IF i >= Len(s) THEN 0
    ELSE IF SubSeq(s, i, i + 1) = "; " THEN i
    ELSE SepFrom(s, i + 1)

RECURSIVE Split(_)
\* the tags of a where_found string
Split(s) ==
    IF s = "" THEN << >>
    ELSE LET k == SepFrom(s, 1) IN
         IF k = 0 THEN <<s>>
         ELSE <<SubSeq(s, 1, k - 1)>> \o Split(SubSeq(s, k + 2, Len(s)))

\* the tag a matching attachment is reported under: its document name, or its
\* type label when it has no document name
TagName(att) == IF att.document = "" THEN att.type ELSE att.document

\* eligibility as the specification words it: the document name ends, whatever
\* the case, in .htm, .html or .txt, or the type label starts, whatever the
\* case, with EX
SaidEligible(att) ==
    \/ \E e \in {".htm", ".html", ".txt"} :
          /\ Len(att.document) >= Len(e)
          /\ lower(SubSeq(att.document, Len(att.document) - Len(e) + 1,
                          Len(att.document))) = e
    \/ /\ Len(att.type) >= Len("EX")
       /\ lower(SubSeq(att.type, 1, Len("EX"))) = "ex"

SaidEligibleAtt ==
    [i \in FilingIds |->
        [j \in 1..Len(Catalog[i].attachments) |-> SaidEligible(Catalog[i].attachments[j])]]

SaidTag ==
    [i \in FilingIds |->
        [j \in 1..Len(Catalog[i].attachments) |->
            "attachment:" \o TagName(Catalog[i].attachments[j])]]

\* the tags of the surfaces of filing f that a list of calls found matching
MatchedTags(f, cs) ==
    {"primary" : c \in {c \in Range(cs) : c.kind = "text" /\ c.outcome = "ok" /\ PrimaryHit[f]}}
    \cup {SaidTag[f][c.att] :
            c \in {c \in Range(cs) : c.kind = "content" /\ c.outcome = "ok"
                                     /\ ContentHit[f][c.att]}}

StrictlyAscending(ts) == \A i \in 1..(Len(ts) - 1) : StrLess(ts[i], ts[i + 1])

\* the filing of the catalog a row reports
FilingOfRow(r) == CHOOSE i \in FilingIds : Catalog[i].accession_no = r.accession_no

DateBefore(a, b) ==
    \/ a[1] < b[1]
    \/ a[1] = b[1] /\ a[2] < b[2]
    \/ a[1] = b[1] /\ a[2] = b[2] /\ a[3] < b[3]

Count(r, rs) == Cardinality({i \in DOMAIN rs : rs[i] = r})

Scanning == pc \in {"attachments", "row"}

\* C1: the scan never raises because an accessor of one filing raised: no run
\* ends with the exception of a text() call leaving find_special_situations.
C1_SurfaceFaultNeverRaises == ~(pc = "raised" /\ error = "text")

\* C2: with max_filings = N the filings of each form that are scanned are
\* exactly the first min(N, available) the provider returned, in its order;
\* nothing after that prefix is fetched or reported, and N = 0 scans nothing.
C2_ScansExactPrefix ==
    /\ filings = SubSeq(avail, 1, Limit(avail))
    /\ Len(scanned) <= Limit(avail)
    /\ scanned = SubSeq(avail, 1, Len(scanned))
    /\ Scanning => Len(scanned) = idx /\ CurId = avail[idx]
    /\ (pc \in {"get_filings", "done"}) => scanned = SubSeq(avail, 1, Limit(avail))
    /\ \A i \in DOMAIN rowSrc :
          /\ max_filings.set => rowSrc[i].pos <= max_filings.n
          /\ rows[i].accession_no = Catalog[rowSrc[i].filing].accession_no
          /\ (rowSrc[i].form = requested /\ ~listFailed)
                => /\ rowSrc[i].pos <= Limit(avail)
                   /\ rowSrc[i].filing = avail[rowSrc[i].pos]
    /\ (max_filings.set /\ max_filings.n = 0) => (scanned = << >> /\ rows = << >>)

C2_Witness ==
    /\ pc = "done"
    /\ max_filings.set
    /\ max_filings.n = 1
    /\ Len(avail) = 3
    /\ scanned = <<avail[1]>>
    /\ Len(rows) = 2

\* C3: no two rows of the returned table carry the same accession number, also
\* when the provider lists one filing under two of the requested forms.
C3_OneRowPerAccession ==
    pc = "done" =>
        \A i, j \in DOMAIN df.data :
            df.data[i].accession_no = df.data[j].accession_no => i = j

\* C4: a non-empty returned table is ordered by (company, filing_date), both
\* compared as strings, ascending, so that the rows of one company are in date
\* order; its index is 0..n-1; its rows are the collected rows, none lost or
\* added.
C4_SortedAndRenumbered ==
    (pc = "done" /\ rows # << >>) =>
        LET d == df.data
            n == Len(d)
        IN /\ n = Len(rows)
           /\ \A r \in Range(rows) \cup Range(d) : Count(r, d) = Count(r, rows)
           /\ \A i \in 1..(n - 1) :
                 \/ StrLess(d[i].company, d[i + 1].company)
                 \/ /\ d[i].company = d[i + 1].company
                    /\ ~StrLess(d[i + 1].filing_date, d[i].filing_date)
           /\ \A i, j \in 1..n :
                 (i < j /\ d[i].company = d[j].company)
                    => ~DateBefore(Catalog[FilingOfRow(d[j])].filing_date,
                                   Catalog[FilingOfRow(d[i])].filing_date)
           /\ df.index = [i \in 1..n |-> i - 1]

C4_Witness ==
    /\ pc = "done"
    /\ Len(rows) >= 3
    /\ df.data # rows
    /\ \E i, j \in DOMAIN df.data :
          /\ i < j
          /\ df.data[i].company = df.data[j].company
          /\ df.data[i].filing_date = "2025-08-08"
          /\ df.data[j].filing_date = "2025-10-01"
    /\ \E i \in DOMAIN df.data : df.data[i].company # df.data[1].company

\* C5: every returned table has the 8 columns company, cik, filing_date,
\* accession_no, form_type, classification, where_found, link, in that order,
\* and the table returned when no hit row was collected has no row.
C5_FixedSchema ==
    pc = "done" =>
        /\ df.columns = <<"company", "cik", "filing_date", "accession_no",
                          "form_type", "classification", "where_found", "link">>
        /\ Len(df.index) = Len(df.data)
        /\ rows = << >> => df.data = << >>

C5_Witness ==
    /\ pc = "done"
    /\ rows = << >>
    /\ df.data = << >>
    /\ scanned # << >>
    /\ faults = 0

\* C6: where_found of every row is the tags of the surfaces of the filing that
\* matched, each once, in ascending order, joined by "; ", and never empty; two
\* matching attachments of one document name give one tag.
C6_WhereFoundIsSortedTagSet ==
    pc = "done" =>
        /\ Range(df.data) = Range(rows)
        /\ \A i \in DOMAIN rows :
              LET ts == Split(rows[i].where_found) IN
              /\ ts # << >>
              /\ StrictlyAscending(ts)
              /\ Range(ts) = MatchedTags(rowSrc[i].filing, rowSrc[i].calls)

C6_Witness ==
    /\ pc = "done"
    /\ \E i \in DOMAIN rows :
          /\ rowSrc[i].filing = 2
          /\ Call("content", 1, "ok") \in Range(rowSrc[i].calls)
          /\ Call("content", 2, "ok") \in Range(rowSrc[i].calls)
          /\ rows[i].where_found = "attachment:R1.HTM; attachment:ex-99"
    /\ \E i \in DOMAIN rows : rows[i].where_found = "attachment:ex99.htm; primary"

\* the rules of the classifier in their declared order
Rules == <<
    [triggers |-> {"13e-3"}, label |-> "Going-Private (13E-3)"],
    [triggers |-> {"sc to-t"}, label |-> "Tender Offer (TO-T)"],
    [triggers |-> {"sc to-i"}, label |-> "Issuer Tender (TO-I)"],
    [triggers |-> {"tender offer", "going private", "go-private", "take private"},
     label |-> "Tender/Going-Private"],
    [triggers |-> {"spin-off", "spinoff", "split-off", "carve-out"}, label |-> "Spin-off"],
    [triggers |-> {"merger", "acquisition", "acquires", "to be acquired", "combination"},
     label |-> "M&A"],
    [triggers |-> {"restructuring", "recapitalization", "rights offering"},
     label |-> "Restructuring/Recap"],
    [triggers |-> {"asset sale", "divestiture", "sell division", "disposition"},
     label |-> "Asset Sale"],
    [triggers |-> {"chapter 11", "bankruptcy", "emerges from chapter"},
     label |-> "Bankruptcy"],
    [triggers |-> {"13d"}, label |-> "Activist/13D"],
    [triggers |-> {"strategic review"}, label |-> "Strategic Review"],
    [triggers |-> {"special dividend"}, label |-> "Special Dividend"],
    [triggers |-> {"buyback", "share repurchase"}, label |-> "Buyback"] >>

\* the rules with a trigger in the lower-cased text
Firing(t) == {k \in DOMAIN Rules : \E g \in Rules[k].triggers : Contains(lower(t), g)}

BothTenderAndAcquired(t) ==
    Contains(lower(t), "tender offer") /\ Contains(lower(t), "to be acquired")

\* C7 as claimed: classify_ returns "Other" for the empty text and when no
\* trigger occurs in the lower-cased text, and otherwise the label of the
\* lowest-numbered of the 13 rules with a trigger in it; every text with
\* "13e-3" and "merger" gives "Going-Private (13E-3)" and every text with
\* "tender offer" and "to be acquired" gives "Tender/Going-Private".
C7_AsClaimed ==
    pc = "classified" =>
        LET fs == Firing(snippet) IN
        /\ Len(Rules) = 13
        /\ (snippet = "" \/ fs = {}) => label = "Other"
        /\ fs # {} => label = Rules[CHOOSE k \in fs : \A m \in fs : k <= m].label
        /\ ({1, 6} \subseteq fs) => label = "Going-Private (13E-3)"
        /\ BothTenderAndAcquired(snippet) => label = "Tender/Going-Private"

\* C7 as amended: the same, but a text with "tender offer" and "to be acquired"
\* gives "Tender/Going-Private" when it has none of "13e-3", "sc to-t" and
\* "sc to-i", which come first; with or without them it never gives "M&A".
C7_FirstMatchWins ==
    pc = "classified" =>
        LET fs == Firing(snippet) IN
        /\ Len(Rules) = 13
        /\ (snippet = "" \/ fs = {}) => label = "Other"
        /\ fs # {} => label = Rules[CHOOSE k \in fs : \A m \in fs : k <= m].label
        /\ ({1, 6} \subseteq fs) => label = "Going-Private (13E-3)"
        /\ BothTenderAndAcquired(snippet) =>
              /\ label # "M&A"
              /\ (fs \cap {1, 2, 3} = {}) => label = "Tender/Going-Private"

C7_Witness ==
    /\ pc = "classified"
    /\ BothTenderAndAcquired(snippet)
    /\ Firing(snippet) = {4, 6}
    /\ snippet # lower(snippet)
    /\ label = "Tender/Going-Private"

\* C8: when the provider's list call raises, the error leaves
\* find_special_situations: no table is returned, the rows collected so far are
\* not delivered, no later form is requested and nothing more is done.
C8_ProviderFailurePropagates ==
    listFailed =>
        /\ pc = "raised"
        /\ error = "get_filings"
        /\ df = NoFrame
        /\ requested = formIdx
        /\ ~ENABLED Next

C8_Witness ==
    /\ listFailed
    /\ pc = "raised"
    /\ rows # << >>
    /\ formIdx = Len(forms)

\* the tags a list of calls on filing f leaves in `where`, in call order
RECURSIVE TagsInOrder(_, _)
TagsInOrder(f, cs) ==
    IF cs = << >> THEN << >>
    ELSE LET c == cs[Len(cs)]
             before == TagsInOrder(f, SubSeq(cs, 1, Len(cs) - 1))
         IN IF c.outcome = "ok" /\ c.kind = "text" /\ PrimaryHit[f]
            THEN Append(before, "primary")
            ELSE IF c.outcome = "ok" /\ c.kind = "content" /\ ContentHit[f][c.att]
            THEN Append(before, SaidTag[f][c.att])
            ELSE before

EnumerationRaised == \E c \in Range(calls) : c.kind = "attachments"

\* C9: a content() that raises costs only its own tag: the attachments after it
\* are still tested and tagged; when reading the attachments raises, at the
\* start or part-way, the tags recorded before it are kept; in both cases the
\* scan goes on to line 132 and no exception of an attachment leaves the scan.
C9_AttachmentFaultsIsolated ==
    /\ Scanning =>
          /\ where = TagsInOrder(CurId, calls)
          /\ \A j \in 1..Len(Cur.attachments) :
                (include_exhibits /\ ~EnumerationRaised /\ (pc = "row" \/ j < attIdx))
                    => \E c \in Range(calls) :
                          /\ c.att = j
                          /\ c.kind = IF SaidEligibleAtt[CurId][j] THEN "content" ELSE "skip"
          /\ EnumerationRaised => pc = "row"
    /\ pc = "raised" => error \in {"get_filings", "text"}

C9_Witness ==
    /\ pc = "row"
    /\ CurId = 2
    /\ Call("content", 1, "raise") \in Range(calls)
    /\ Call("content", 2, "ok") \in Range(calls)
    /\ Call("attachments", 3, "raise") \in Range(calls)
    /\ where = <<"attachment:R1.HTM">>

\* C10: content() is called only with include_exhibits and on an eligible
\* attachment; without include_exhibits no attachment is touched and every
\* where_found is "primary"; every "attachment:" tag has a name and names an
\* eligible attachment of the filing.
C10_ContentOnlyWhenEligible ==
    /\ Scanning =>
          /\ \A c \in Range(calls) :
                c.kind = "content" => (include_exhibits /\ SaidEligibleAtt[CurId][c.att])
          /\ ~include_exhibits => \A c \in Range(calls) : c.kind = "text"
    /\ pc = "done" =>
          \A i \in DOMAIN rows :
              /\ ~include_exhibits => rows[i].where_found = "primary"
              /\ \A t \in Range(Split(rows[i].where_found)) :
                    \/ t = "primary"
                    \/ /\ startswith(t, "attachment:")
                       /\ Len(t) > Len("attachment:")
                       /\ \E j \in DOMAIN Catalog[rowSrc[i].filing].attachments :
                             /\ SaidEligibleAtt[rowSrc[i].filing][j]
                             /\ t = SaidTag[rowSrc[i].filing][j]

C10_Witness ==
    /\ pc = "row"
    /\ include_exhibits
    /\ CurId = 2
    /\ Call("content", 1, "ok") \in Range(calls)
    /\ Call("content", 3, "ok") \in Range(calls)
    /\ where = <<"attachment:R1.HTM", "attachment:ex-99">>

====
